---------------------------- MODULE Spec2Model ----------------------------
(***************************************************************************)
(* Model of the SystemExtension of MacbookSystemManagerCustom: the         *)
(* Endpoint Security event handler, the device access policy flags, the    *)
(* XPC command channel, the audit database and the monitoring threads.     *)
(*                                                                         *)
(* The repository defines AudioVideoController::handleESEvent twice, in    *)
(* AudioVideoController.cpp and in ProcessMonitoring.cpp.  One program can *)
(* hold only one of the two definitions; which one a build keeps is not    *)
(* fixed by the sources, so the model chooses it in Init (handlerImpl) and *)
(* keeps it for the whole run.                                             *)
(*                                                                         *)
(* A C string is modelled as a sequence of tokens (pieces of the string);  *)
(* strstr / std::string::find is a search for a contiguous run of tokens.  *)
(***************************************************************************)
EXTENDS Integers, Sequences, FiniteSets, TLC

\* ------------------------------------------------------------------ bounds

\* number of kernel events delivered in one run
MaxEvents == 1

\* ----------------------------------------------------------------- strings

\* strstr(path, frag) != NULL, std::string::find(frag) != npos
Contains(path, frag) ==
    \E i \in 1..(Len(path) - Len(frag) + 1) :
        SubSeq(path, i, i + Len(frag) - 1) = frag

ContainsAny(path, frags) == \E f \in frags : Contains(path, f)

\* message->event.open.file.path.data == NULL
NoPath == <<>>

PathAudio == <<"/dev/audio", "1">>
PathVideo == <<"/dev/video", "0">>
PathAudioUnit == <<"/Library/", "AudioUnit", "/x">>
PathBoth == <<"/dev/audio", "/", "AVCapture">>
PathPlain == <<"/tmp/", "file">>

\* the target paths an open event is delivered with
OpenPaths ==
    {NoPath, PathAudio, PathVideo, PathAudioUnit, PathBoth, PathPlain}

\* the target paths a write or unlink event is delivered with
FilePaths == {NoPath, PathPlain}

\* the markers of AudioVideoController.cpp's handleESEvent
EsAudioMarkers ==
    {<<"/dev/audio">>, <<"coreaudio">>, <<"AudioUnit">>, <<"AVAudioEngine">>}

EsVideoMarkers ==
    {<<"/dev/video">>, <<"AVCapture">>, <<"CoreMediaIO">>, <<"VDCAssistant">>}

\* the markers of handleFileOpen
isAudioDevice(filePath) ==
    ContainsAny(filePath, {<<"/dev/audio">>, <<"coreaudio">>})

isVideoDevice(filePath) ==
    ContainsAny(filePath, {<<"/dev/video">>, <<"AVCapture">>})

\* ------------------------------------------------------------------ events

Pids == {500, 501}

\* the pids of the process list the discovery scan walks
ScanPids == {501}

\* the signal a signal event carries, the uid a setuid event carries
Signals == {15}
Uids == {0}

\* the subscribed event types the handlers tell apart; AUTH_EXEC and
\* NOTIFY_CLOSE stand for the subscribed types no handler names
EventTypes ==
    {"AUTH_OPEN", "NOTIFY_OPEN", "NOTIFY_EXEC", "NOTIFY_EXIT", "NOTIFY_FORK",
     "NOTIFY_WRITE", "AUTH_UNLINK", "NOTIFY_UNLINK", "NOTIFY_MMAP",
     "NOTIFY_SIGNAL", "NOTIFY_SETUID", "AUTH_EXEC", "NOTIFY_CLOSE"}

AuthTypes == {"AUTH_OPEN", "AUTH_UNLINK", "AUTH_EXEC"}

\* message->action_type, fixed by the event type
ActionType(event_type) == IF event_type \in AuthTypes THEN "AUTH" ELSE "NOTIFY"

\* the target path an event of this type can carry
PathsOf(event_type) ==
    IF event_type \in {"AUTH_OPEN", "NOTIFY_OPEN"} THEN OpenPaths
    ELSE IF event_type \in {"NOTIFY_WRITE", "AUTH_UNLINK", "NOTIFY_UNLINK"}
         THEN FilePaths
         ELSE {NoPath}

\* the processes an event of this type comes from
PidsOf(event_type) ==
    IF event_type \in {"NOTIFY_EXEC", "NOTIFY_EXIT"} THEN Pids ELSE {500}

\* the other process an event of this type names (fork child, signal target)
TargetsOf(event_type) ==
    IF event_type \in {"NOTIFY_FORK", "NOTIFY_SIGNAL"} THEN {501} ELSE {0}

\* the number an event of this type carries (signal number, new uid)
NumbersOf(event_type) ==
    IF event_type = "NOTIFY_SIGNAL" THEN Signals
    ELSE IF event_type = "NOTIFY_SETUID" THEN Uids ELSE {0}

\* es_message_t: the fields the handlers read
Messages ==
    UNION { { [event_type |-> t, action_type |-> ActionType(t), pid |-> p,
               path |-> f, target |-> q, number |-> n] :
              p \in PidsOf(t), f \in PathsOf(t), q \in TargetsOf(t),
              n \in NumbersOf(t) } : t \in EventTypes }

NoMessage == [event_type |-> "NONE", action_type |-> "NONE", pid |-> 0,
              path |-> NoPath, target |-> 0, number |-> 0]

\* the device an open event's path names: an audio marker is looked for first
PolicedDevice(m) ==
    IF m.event_type = "AUTH_OPEN" /\ m.path # NoPath
    THEN IF ContainsAny(m.path, EsAudioMarkers) THEN "audio"
         ELSE IF ContainsAny(m.path, EsVideoMarkers) THEN "video" ELSE "none"
    ELSE "none"

\* --------------------------------------------------------- process snapshots

LibAVFoundation == <<"/usr/lib/lib", "AVFoundation", ".dylib">>
LibSystem == <<"/usr/lib/", "libSystem", ".dylib">>

\* an entry of the map getProcessEnvironment returns
EnvHome == [var_name |-> "HOME", var_value |-> "/var/root"]

\* what the introspection calls return for a process: its open files, its
\* loaded libraries and its environment (all empty when the process is gone,
\* the libraries empty when task_for_pid is denied, the environment when
\* sysctl fails)
Introspections ==
    {[openFiles |-> <<>>, loadedLibraries |-> <<>>,
      environmentVariables |-> <<>>],
     [openFiles |-> <<>>, loadedLibraries |-> <<LibAVFoundation>>,
      environmentVariables |-> <<EnvHome>>],
     [openFiles |-> <<PathPlain>>, loadedLibraries |-> <<>>,
      environmentVariables |-> <<>>],
     [openFiles |-> <<PathPlain>>,
      loadedLibraries |-> <<LibAVFoundation, LibSystem>>,
      environmentVariables |-> <<EnvHome>>]}

\* ------------------------------------------------------------------- state

VARIABLES
    handlerImpl,        \* which definition of handleESEvent the program holds
    phase,              \* "constructed", "running", "aborted", "stopped",
                        \* "destroying", "destroyed"
    esClient,           \* esClient != nullptr
    database,           \* database != nullptr
    monitoringEnabled,
    netPc,              \* networkMonitoringThread: "none", "run", "done"
    fsPc,               \* fileSystemMonitoringThread: "none", "run", "done"
    cleanupPc,          \* cleanup: "none", "join_process", "join_network",
                        \* "join_filesystem", "release", "returned",
                        \* "faulted"
    calls,              \* history: how often pthread_join has been called on
                        \* each thread handle, and es_delete_client and
                        \* sqlite3_close on theirs
    microphoneEnabled,
    cameraEnabled,
    esPc,               \* the event callback: "idle", "handling", "deadlocked"
    message,            \* the message being handled, or the last one handled
    responses,          \* es_respond_auth_result calls made for message
    delivered,          \* number of messages delivered since Init
    observed,           \* history: the values the flag that message's path
                        \* names has held since message was delivered, up to
                        \* the handler's return
    dbOwner,            \* the thread holding databaseMutex, or "none"
    process_events,     \* rows of table process_events
    file_access,        \* rows of table file_access
    system_calls,       \* rows of table system_calls
    loaded_libraries,   \* rows of table loaded_libraries
    environment_vars,   \* rows of table environment_vars
    network_connections, \* rows of table network_connections
    readPc,             \* the read accessor a caller is inside, or "idle"
    readResult,         \* the vector the last read accessor call built
    runningProcesses,   \* std::map<pid_t, ProcessInfo>
    recentFileAccess,   \* std::vector<FileAccess>
    newest,             \* history: for each pid, the snapshot collected last
    reply,              \* the last XPC reply sent
    procPc,             \* processMonitoringThread: "none", "run", "done",
                        \* "analyzed"
                        \* (find said absent, snapshot collected), "storing"
                        \* (inside runningProcesses[pid] = info), "raced"
                        \* (the same, and another thread has used the map
                        \* meanwhile), "deadlocked"
    scan                \* the ProcessInfo info of scanRunningProcesses

policyVars == <<microphoneEnabled, cameraEnabled>>
lifeVars == <<phase, esClient, database, monitoringEnabled, netPc, fsPc,
             cleanupPc, calls>>
esVars == <<esPc, message, responses, delivered, observed>>
dbVars == <<dbOwner, process_events, file_access, system_calls, loaded_libraries,
           environment_vars, network_connections, readPc, readResult>>
memVars == <<runningProcesses, recentFileAccess, newest>>
scanVars == <<procPc, scan>>

vars == <<handlerImpl, policyVars, lifeVars, esVars, dbVars, memVars, reply,
          scanVars>>

HandlerImpls == {"AudioVideoController", "ProcessMonitoring"}

NoReply == [command |-> "NONE"]

\* no snapshot
NoInfo == [pid |-> 0]

\* processMonitorThread, networkMonitorThread, fileSystemMonitorThread
Threads == {"process", "network", "filesystem"}

\* the calls cleanup makes
Calls == Threads \cup {"es_delete_client", "sqlite3_close"}

NoCalls == [c \in Calls |-> 0]

\* the state after AudioVideoController::AudioVideoController()
Init ==
    /\ handlerImpl \in HandlerImpls
    /\ phase = "constructed"
    /\ esClient = FALSE
    /\ database = FALSE
    /\ monitoringEnabled = FALSE
    /\ netPc = "none"
    /\ fsPc = "none"
    /\ cleanupPc = "none"
    /\ calls = NoCalls
    /\ microphoneEnabled = TRUE
    /\ cameraEnabled = TRUE
    /\ esPc = "idle"
    /\ message = NoMessage
    /\ responses = <<>>
    /\ delivered = 0
    /\ observed = {}
    /\ dbOwner = "none"
    /\ process_events = <<>>
    /\ file_access = <<>>
    /\ system_calls = <<>>
    /\ loaded_libraries = <<>>
    /\ environment_vars = <<>>
    /\ network_connections = <<>>
    /\ readPc = "idle"
    /\ readResult = <<>>
    /\ runningProcesses = <<>>
    /\ recentFileAccess = <<>>
    /\ newest = [pid \in Pids |-> NoInfo]
    /\ reply = NoReply
    /\ procPc = "none"
    /\ scan = NoInfo

\* ------------------------------------------------------------ initialization

InitOutcomes == {"ok", "database_failed", "new_client_failed", "subscribe_failed"}

\* initialize going on after a failure
initializeIgnoringFailure(outcome) ==
    /\ phase = "constructed"
    /\ database' = (outcome # "database_failed")
    /\ esClient' = (outcome = "ok")
    /\ monitoringEnabled' = TRUE
    /\ procPc' = "run"
    /\ netPc' = "run"
    /\ fsPc' = "run"
    /\ calls' = [calls EXCEPT !["es_delete_client"] =
                   IF outcome = "subscribe_failed" THEN 1 ELSE 0]
    /\ UNCHANGED cleanupPc
    /\ phase' = "running"
    /\ UNCHANGED <<handlerImpl, policyVars, esVars, dbVars, memVars, reply, scan>>

\* AudioVideoController::initialize as main calls it; on false main returns 1
initialize(outcome) ==
    /\ phase = "constructed"
    /\ database' = (outcome # "database_failed")
    /\ esClient' = (outcome = "ok")
    /\ monitoringEnabled' = (outcome = "ok")
    /\ procPc' = IF outcome = "ok" THEN "run" ELSE "none"
    /\ netPc' = IF outcome = "ok" THEN "run" ELSE "none"
    /\ fsPc' = IF outcome = "ok" THEN "run" ELSE "none"
    /\ calls' = [calls EXCEPT !["es_delete_client"] =
                   IF outcome = "subscribe_failed" THEN 1 ELSE 0]
    /\ UNCHANGED cleanupPc
    /\ phase' = IF outcome = "ok" THEN "running" ELSE "aborted"
    /\ UNCHANGED <<handlerImpl, policyVars, esVars, dbVars, memVars, reply, scan>>

\* ------------------------------------------------------------- audit store

\* mach_absolute_time() as a handler reads it: the clock does not run
\* backwards and a later message is handled at a later reading, so the
\* reading taken while the k-th message is handled is modelled as k
mach_absolute_time == delivered

\* the row logFileAccess inserts into file_access; access.timestamp is the
\* clock reading its handler took
FileAccessRow(access) ==
    [timestamp |-> mach_absolute_time, pid |-> access.pid,
     file_path |-> access.filePath, access_type |-> access.accessType,
     was_blocked |-> access.wasBlocked, reason |-> access.reason]

\* the row logNetworkEvent inserts into network_connections
NetworkRow(connection) ==
    [timestamp |-> connection.timestamp, pid |-> connection.pid,
     protocol |-> connection.protocol,
     local_address |-> connection.localAddress,
     local_port |-> connection.localPort,
     remote_address |-> connection.remoteAddress,
     remote_port |-> connection.remotePort, state |-> connection.state]

\* the row logSystemCall inserts into system_calls
SystemCallRow(pid, syscall, args) ==
    [pid |-> pid, syscall_name |-> syscall, arguments |-> args]

\* the row logProcessEvent inserts into process_events
ProcessEventRow(process, event) ==
    [pid |-> process.pid, event_type |-> event]

\* the rows logProcessEvent inserts into loaded_libraries
LibraryRows(process) ==
    [i \in 1..Len(process.loadedLibraries) |->
        [pid |-> process.pid, library_path |-> process.loadedLibraries[i]]]

\* the rows logProcessEvent inserts into environment_vars
EnvironmentRows(process) ==
    [i \in 1..Len(process.environmentVariables) |->
        [pid |-> process.pid,
         var_name |-> process.environmentVariables[i].var_name,
         var_value |-> process.environmentVariables[i].var_value]]

\* what becomes of an INSERT: sqlite3_prepare_v2 fails and the statement is
\* skipped, or it succeeds and sqlite3_step, whose result nobody reads,
\* inserts the row or fails
WriteResults == {"SQLITE_OK", "PREPARE_FAILED", "STEP_FAILED"}

Written(wr) == wr = "SQLITE_OK"

\* logProcessEvent locks databaseMutex and, once its first statement is
\* prepared, calls logFileAccess for each open file, which locks it again:
\* databaseMutex is a default (on macOS: normal) mutex, so the thread blocks
\* on itself for ever
SelfDeadlock(process, wr) ==
    wr # "PREPARE_FAILED" /\ process.openFiles # <<>>

\* logFileAccess without the lock
logFileAccessNoLock(access, wr) ==
    /\ file_access' = IF Written(wr)
                      THEN Append(file_access, FileAccessRow(access))
                      ELSE file_access
    /\ UNCHANGED <<dbOwner, process_events, system_calls, loaded_libraries,
                   environment_vars, network_connections, readPc,
                   readResult>>

\* logFileAccess running its statement twice
logFileAccessTwice(access, wr) ==
    /\ dbOwner = "none"
    /\ file_access' = IF Written(wr)
                      THEN file_access \o <<FileAccessRow(access),
                                            FileAccessRow(access)>>
                      ELSE file_access
    /\ UNCHANGED <<dbOwner, process_events, system_calls, loaded_libraries,
                   environment_vars, network_connections, readPc,
                   readResult>>

\* logFileAccess: lock, insert, unlock; it waits while the mutex is held
logFileAccess(access, wr) ==
    /\ dbOwner = "none"
    /\ file_access' = IF Written(wr)
                      THEN Append(file_access, FileAccessRow(access))
                      ELSE file_access
    /\ UNCHANGED <<dbOwner, process_events, system_calls, loaded_libraries,
                   environment_vars, network_connections, readPc,
                   readResult>>

\* logSystemCall: lock, insert, unlock
logSystemCall(pid, syscall, args, wr) ==
    /\ dbOwner = "none"
    /\ system_calls' = IF Written(wr)
                       THEN Append(system_calls, SystemCallRow(pid, syscall, args))
                       ELSE system_calls
    /\ UNCHANGED <<dbOwner, process_events, file_access, loaded_libraries,
                   environment_vars, network_connections, readPc,
                   readResult>>

\* logProcessEvent returning without the unlock when its first statement is
\* not prepared
logProcessEventKeepLock(t, process, event, wr) ==
    /\ dbOwner = "none"
    /\ process_events' = IF Written(wr)
                         THEN Append(process_events, ProcessEventRow(process, event))
                         ELSE process_events
    /\ IF SelfDeadlock(process, wr) \/ wr = "PREPARE_FAILED"
       THEN /\ dbOwner' = t
            /\ UNCHANGED <<loaded_libraries, environment_vars>>
       ELSE /\ dbOwner' = "none"
            /\ loaded_libraries' =
                 IF Written(wr)
                 THEN loaded_libraries \o LibraryRows(process)
                 ELSE loaded_libraries
            /\ environment_vars' =
                 IF Written(wr)
                 THEN environment_vars \o EnvironmentRows(process)
                 ELSE environment_vars
    /\ UNCHANGED <<file_access, system_calls, network_connections, readPc,
                   readResult>>

\* logProcessEvent, called by thread t: lock, the process_events statement,
\* then the self-deadlock, or the loaded_libraries and environment_vars
\* statements and unlock; wr is the result of each statement of the call
logProcessEvent(t, process, event, wr) ==
    /\ dbOwner = "none"
    /\ process_events' = IF Written(wr)
                         THEN Append(process_events, ProcessEventRow(process, event))
                         ELSE process_events
    /\ IF SelfDeadlock(process, wr)
       THEN /\ dbOwner' = t
            /\ UNCHANGED <<loaded_libraries, environment_vars>>
       ELSE /\ dbOwner' = "none"
            /\ loaded_libraries' =
                 IF Written(wr)
                 THEN loaded_libraries \o LibraryRows(process)
                 ELSE loaded_libraries
            /\ environment_vars' =
                 IF Written(wr)
                 THEN environment_vars \o EnvironmentRows(process)
                 ELSE environment_vars
    /\ UNCHANGED <<file_access, system_calls, network_connections, readPc,
                   readResult>>

\* logNetworkEvent: lock, insert, unlock
logNetworkEvent(connection, wr) ==
    /\ dbOwner = "none"
    /\ network_connections' =
         IF Written(wr)
         THEN Append(network_connections, NetworkRow(connection))
         ELSE network_connections
    /\ UNCHANGED <<dbOwner, process_events, file_access, system_calls,
                   loaded_libraries, environment_vars, readPc, readResult>>

\* the read accessors: getNetworkConnections and getFileAccessHistory
ReadAccessors == {"getNetworkConnections", "getFileAccessHistory"}

\* LIMIT 1000 of getNetworkConnections, LIMIT 5000 of getFileAccessHistory
NetworkLimit == 1000
HistoryLimit == 5000

\* rows with equal timestamps come out of ORDER BY in an order SQL leaves
\* open: here in insertion order or in its reverse
TieOrders == {"rowid ASC", "rowid DESC"}

Reverse(seq) == [i \in 1..Len(seq) |-> seq[Len(seq) + 1 - i]]

Largest(numbers) == CHOOSE n \in numbers : \A m \in numbers : m <= n

\* the rows of table whose timestamp is in times, ORDER BY timestamp DESC
RECURSIVE OrderByTimestampDesc(_, _, _)
OrderByTimestampDesc(table, times, ties) ==
    IF times = {} THEN <<>>
    ELSE LET t == Largest(times)
             rows == SelectSeq(table, LAMBDA row : row.timestamp = t)
         IN (IF ties = "rowid ASC" THEN rows ELSE Reverse(rows))
              \o OrderByTimestampDesc(table, times \ {t}, ties)

\* SELECT * FROM table ORDER BY timestamp DESC without the LIMIT
SelectNoLimit(table, limit, ties) ==
    OrderByTimestampDesc(table,
                         {table[i].timestamp : i \in DOMAIN table}, ties)

\* SELECT * FROM table ORDER BY timestamp DESC LIMIT limit: the rows
\* sqlite3_step yields, in order
Select(table, limit, ties) ==
    LET ordered == OrderByTimestampDesc(table,
                      {table[i].timestamp : i \in DOMAIN table}, ties)
    IN SubSeq(ordered, 1, IF Len(ordered) < limit THEN Len(ordered) ELSE limit)

\* the columns of a file_access row as SELECT * yields them, from column 0;
\* id is the AUTOINCREMENT key, whose value the accessor does not read
FileAccessColumns(row) ==
    <<"id", row.timestamp, row.pid, row.file_path, row.access_type,
      row.was_blocked, row.reason>>

\* the FileAccess getFileAccessHistory builds from columns 1 to 6
ReadFileAccess(columns) ==
    [timestamp |-> columns[2], pid |-> columns[3], filePath |-> columns[4],
     accessType |-> columns[5], wasBlocked |-> columns[6],
     reason |-> columns[7]]

\* the columns of a network_connections row, from column 0
NetworkColumns(row) ==
    <<"id", row.timestamp, row.pid, row.protocol, row.local_address,
      row.local_port, row.remote_address, row.remote_port, row.state>>

\* the NetworkConnection getNetworkConnections builds from columns 1 to 8
ReadConnection(columns) ==
    [timestamp |-> columns[2], pid |-> columns[3], protocol |-> columns[4],
     localAddress |-> columns[5], localPort |-> columns[6],
     remoteAddress |-> columns[7], remotePort |-> columns[8],
     state |-> columns[9]]

\* the vector getNetworkConnections returns
getNetworkConnections(ties) ==
    LET rows == Select(network_connections, NetworkLimit, ties)
    IN [k \in 1..Len(rows) |-> ReadConnection(NetworkColumns(rows[k]))]

\* the vector getFileAccessHistory returns
getFileAccessHistory(ties) ==
    LET rows == Select(file_access, HistoryLimit, ties)
    IN [k \in 1..Len(rows) |-> ReadFileAccess(FileAccessColumns(rows[k]))]

\* a caller enters a read accessor: it locks databaseMutex, waiting while the
\* mutex is held, and runs its SELECT, building the vector it will return
ReadBegin(accessor, ties) ==
    /\ phase = "running"
    /\ readPc = "idle"
    /\ dbOwner = "none"
    /\ dbOwner' = "reader"
    /\ readPc' = accessor
    /\ readResult' = IF accessor = "getNetworkConnections"
                     THEN getNetworkConnections(ties)
                     ELSE getFileAccessHistory(ties)
    /\ UNCHANGED <<handlerImpl, policyVars, lifeVars, esVars, process_events,
                   file_access, system_calls, loaded_libraries,
                   environment_vars, network_connections, memVars, reply,
                   scanVars>>

\* the accessor finalizes its statement, unlocks and returns
ReadEnd ==
    /\ readPc # "idle"
    /\ dbOwner' = "none"
    /\ readPc' = "idle"
    /\ UNCHANGED <<handlerImpl, policyVars, lifeVars, esVars, process_events,
                   file_access, system_calls, loaded_libraries,
                   environment_vars, network_connections, readResult, memVars,
                   reply, scanVars>>

\* --------------------------------------- handleESEvent, AudioVideoController.cpp

Decision(enabled) == IF enabled THEN "ALLOW" ELSE "DENY"

\* EsResponses without the response of the default branch
EsResponsesNoDefault(m, mic, cam) ==
    IF m.event_type = "AUTH_OPEN"
    THEN IF m.path # NoPath /\ ContainsAny(m.path, EsAudioMarkers)
         THEN <<Decision(mic)>>
         ELSE IF m.path # NoPath /\ ContainsAny(m.path, EsVideoMarkers)
              THEN <<Decision(cam)>>
              ELSE <<"ALLOW">>
    ELSE <<>>

\* EsResponses with the microphone flag applied to every open with a path
EsResponsesPoliceAll(m, mic, cam) ==
    IF m.event_type = "AUTH_OPEN"
    THEN IF m.path # NoPath
         THEN <<Decision(mic)>>
         ELSE <<"ALLOW">>
    ELSE IF m.event_type = "NOTIFY_EXEC"
         THEN <<>>
         ELSE IF m.action_type = "AUTH" THEN <<"ALLOW">> ELSE <<>>

\* the es_respond_auth_result calls handleESEvent of AudioVideoController.cpp
\* makes for message m when the flags are mic and cam
EsResponses(m, mic, cam) ==
    IF m.event_type = "AUTH_OPEN"
    THEN IF m.path # NoPath /\ ContainsAny(m.path, EsAudioMarkers)
         THEN <<Decision(mic)>>
         ELSE IF m.path # NoPath /\ ContainsAny(m.path, EsVideoMarkers)
              THEN <<Decision(cam)>>
              ELSE <<"ALLOW">>
    ELSE IF m.event_type = "NOTIFY_EXEC"
         THEN <<>>
         ELSE IF m.action_type = "AUTH" THEN <<"ALLOW">> ELSE <<>>

\* handleESEvent as AudioVideoController.cpp defines it
EsHandleESEvent ==
    /\ handlerImpl = "AudioVideoController"
    /\ esPc = "handling"
    /\ responses' = responses \o EsResponses(message, microphoneEnabled, cameraEnabled)
    /\ esPc' = "idle"
    /\ UNCHANGED <<handlerImpl, policyVars, lifeVars, message, delivered, observed,
                   dbVars, memVars, reply, scanVars>>

\* ----------------------------------------- the handlers, ProcessMonitoring.cpp

RecentLimit == 10000
RecentEvict == 1000

\* the capability loop of handleProcessExec
HasLibrary(libs, frags) == \E i \in 1..Len(libs) : ContainsAny(libs[i], frags)

\* a capability flag that was assigned: "true" or "false" (a flag nobody
\* assigned is Indeterminate)
Flag(b) == IF b THEN "true" ELSE "false"

ExecInfo(pid, os) ==
    [pid |-> pid, openFiles |-> os.openFiles,
     loadedLibraries |-> os.loadedLibraries,
     environmentVariables |-> os.environmentVariables,
     hasAudioAccess |->
        Flag(HasLibrary(os.loadedLibraries,
                        {<<"AVFoundation">>, <<"CoreAudio">>, <<"AudioUnit">>})),
     hasVideoAccess |->
        Flag(HasLibrary(os.loadedLibraries,
                        {<<"AVCapture">>, <<"CoreMediaIO">>})),
     hasNetworkAccess |->
        Flag(HasLibrary(os.loadedLibraries, {<<"Network">>, <<"CFNetwork">>}))]

\* the map without the entry of pid
Erase(map, pid) == [p \in DOMAIN map \ {pid} |-> map[p]]

\* the map with map[pid] = info
Store(map, pid, info) ==
    [p \in DOMAIN map \cup {pid} |-> IF p = pid THEN info ELSE map[p]]

\* processMonitoringThread is inside runningProcesses[pid] = info
MapInUse == procPc \in {"storing", "raced"}

\* what becomes of a write to runningProcesses: no lock guards the map, and
\* a write that overlaps another thread's access is a data race, after which
\* the write may as well be lost
RaceOutcomes(raced) == IF raced THEN {"applied", "lost"} ELSE {"applied"}

\* runningProcesses after a write that makes it `written`
Outcome(outcome, written) ==
    IF outcome = "applied" THEN written ELSE runningProcesses

handleProcessExec(m, os, wr) ==
    LET processInfo == ExecInfo(m.pid, os) IN
    /\ newest' = [newest EXCEPT ![m.pid] = processInfo]
    /\ \E outcome \in RaceOutcomes(MapInUse) :
         runningProcesses' =
            Outcome(outcome, Store(runningProcesses, m.pid, processInfo))
    /\ logProcessEvent("es", processInfo, "EXEC", wr)
    /\ esPc' = IF SelfDeadlock(processInfo, wr) THEN "deadlocked" ELSE "idle"
    /\ UNCHANGED recentFileAccess

handleProcessExit(m, wr) ==
    IF m.pid \in DOMAIN runningProcesses
    THEN /\ logProcessEvent("es", runningProcesses[m.pid], "EXIT", wr)
         /\ IF SelfDeadlock(runningProcesses[m.pid], wr)
            THEN /\ esPc' = "deadlocked"
                 /\ UNCHANGED runningProcesses
            ELSE /\ esPc' = "idle"
                 /\ \E outcome \in RaceOutcomes(MapInUse) :
                      runningProcesses' =
                         Outcome(outcome, Erase(runningProcesses, m.pid))
         /\ UNCHANGED <<recentFileAccess, newest>>
    ELSE /\ esPc' = "idle"
         /\ UNCHANGED <<dbVars, memVars>>

\* PushRecent without the trim
PushRecentNoTrim(buffer, access) == Append(buffer, access)

\* PushRecent with a trim of the one oldest entry
PushRecentEvictOne(buffer, access) ==
    LET pushed == Append(buffer, access) IN
    IF Len(pushed) > RecentLimit
    THEN SubSeq(pushed, 2, Len(pushed))
    ELSE pushed

\* recentFileAccess after push_back(access) and the trim that follows it
PushRecent(buffer, access) ==
    LET pushed == Append(buffer, access) IN
    IF Len(pushed) > RecentLimit
    THEN SubSeq(pushed, RecentEvict + 1, Len(pushed))
    ELSE pushed

\* the FileAccess handleFileOpen builds
OpenAccess(m, mic, cam) ==
    [pid |-> m.pid, filePath |-> m.path, accessType |-> "OPEN",
     wasBlocked |-> (isAudioDevice(m.path) /\ ~mic) \/ (isVideoDevice(m.path) /\ ~cam),
     reason |-> IF isAudioDevice(m.path) /\ ~mic
                THEN "Microphone disabled by system extension"
                ELSE IF isVideoDevice(m.path) /\ ~cam
                     THEN "Camera disabled by system extension"
                     ELSE ""]

handleFileOpen(m, wr) ==
    IF m.path # NoPath
    THEN LET access == OpenAccess(m, microphoneEnabled, cameraEnabled) IN
         /\ logFileAccess(access, wr)
         /\ recentFileAccess' = PushRecent(recentFileAccess, access)
         /\ esPc' = "idle"
         /\ UNCHANGED <<runningProcesses, newest>>
    ELSE /\ esPc' = "idle"
         /\ UNCHANGED <<dbVars, memVars>>

\* the FileAccess handleFileWrite ("WRITE") and handleFileDelete ("DELETE") build
PlainAccess(m, accessType) ==
    [pid |-> m.pid, filePath |-> m.path, accessType |-> accessType,
     wasBlocked |-> FALSE, reason |-> ""]

handleFileWrite(m, wr) ==
    IF m.path # NoPath
    THEN /\ logFileAccess(PlainAccess(m, "WRITE"), wr)
         /\ esPc' = "idle"
         /\ UNCHANGED memVars
    ELSE /\ esPc' = "idle"
         /\ UNCHANGED <<dbVars, memVars>>

handleFileDelete(m, wr) ==
    IF m.path # NoPath
    THEN /\ logFileAccess(PlainAccess(m, "DELETE"), wr)
         /\ esPc' = "idle"
         /\ UNCHANGED memVars
    ELSE /\ esPc' = "idle"
         /\ UNCHANGED <<dbVars, memVars>>

handleMmap(m, wr) ==
    /\ logSystemCall(m.pid, "mmap", <<"Memory mapping event">>, wr)
    /\ esPc' = "idle"
    /\ UNCHANGED memVars

handleSignal(m, wr) ==
    /\ logSystemCall(m.pid, "kill",
                     <<"signal=", m.number, " target_pid=", m.target>>, wr)
    /\ esPc' = "idle"
    /\ UNCHANGED memVars

handleFork(m, wr) ==
    /\ logSystemCall(m.pid, "fork", <<"Process forked">>, wr)
    /\ esPc' = "idle"
    /\ UNCHANGED memVars

handleSetuid(m, wr) ==
    /\ logSystemCall(m.pid, "setuid", <<"new_uid=", m.number>>, wr)
    /\ esPc' = "idle"
    /\ UNCHANGED memVars

\* ------------------------------------------ handleESEvent, ProcessMonitoring.cpp

\* PmResponses without the test of action_type
PmResponsesAlways(m) == <<"ALLOW">>

\* PmResponses answering only when the handler's row was written
PmResponsesIfLogged(m) ==
    IF m.action_type = "AUTH" /\ file_access' # file_access
    THEN <<"ALLOW">>
    ELSE <<>>

\* the es_respond_auth_result calls handleESEvent of ProcessMonitoring.cpp makes
\* for message m once its handler has returned
PmResponses(m) == IF m.action_type = "AUTH" THEN <<"ALLOW">> ELSE <<>>

\* the handlers of these event types use runningProcesses
RegistryEvents == {"NOTIFY_EXEC", "NOTIFY_EXIT"}

\* the switch of handleESEvent of ProcessMonitoring.cpp
PmRoute(m, wr) ==
    \/ /\ m.event_type = "NOTIFY_EXEC"
       /\ \E os \in Introspections : handleProcessExec(m, os, wr)
    \/ /\ m.event_type = "NOTIFY_EXIT"
       /\ handleProcessExit(m, wr)
    \/ /\ m.event_type = "NOTIFY_FORK"
       /\ handleFork(m, wr)
    \/ /\ m.event_type \in {"AUTH_OPEN", "NOTIFY_OPEN"}
       /\ handleFileOpen(m, wr)
    \/ /\ m.event_type = "NOTIFY_WRITE"
       /\ handleFileWrite(m, wr)
    \/ /\ m.event_type \in {"AUTH_UNLINK", "NOTIFY_UNLINK"}
       /\ handleFileDelete(m, wr)
    \/ /\ m.event_type = "NOTIFY_MMAP"
       /\ handleMmap(m, wr)
    \/ /\ m.event_type = "NOTIFY_SIGNAL"
       /\ handleSignal(m, wr)
    \/ /\ m.event_type = "NOTIFY_SETUID"
       /\ handleSetuid(m, wr)
    \/ /\ m.event_type \in {"AUTH_EXEC", "NOTIFY_CLOSE"}
       /\ esPc' = "idle"
       /\ UNCHANGED <<dbVars, memVars>>

\* handleESEvent as ProcessMonitoring.cpp defines it
PmHandleESEvent ==
    /\ handlerImpl = "ProcessMonitoring"
    /\ esPc = "handling"
    /\ \E wr \in WriteResults : PmRoute(message, wr)
    /\ responses' = IF esPc' = "deadlocked"
                    THEN responses
                    ELSE responses \o PmResponses(message)
    /\ procPc' = IF MapInUse /\ message.event_type \in RegistryEvents
                 THEN "raced"
                 ELSE procPc
    /\ UNCHANGED <<handlerImpl, policyVars, lifeVars, message, delivered, observed,
                   reply, scan>>

\* the kernel delivers a message of a subscribed type to the client's block,
\* one message at a time
ESDeliver(m) ==
    /\ phase = "running"
    /\ esClient
    /\ esPc = "idle"
    /\ delivered < MaxEvents
    /\ message' = m
    /\ responses' = <<>>
    /\ delivered' = delivered + 1
    /\ observed' = CASE PolicedDevice(m) = "audio" -> {microphoneEnabled}
                     [] PolicedDevice(m) = "video" -> {cameraEnabled}
                     [] OTHER -> {}
    /\ esPc' = "handling"
    /\ UNCHANGED <<handlerImpl, policyVars, lifeVars, dbVars, memVars, reply,
                   scanVars>>

\* ------------------------------------------------------------ device policy

KernResults == {"KERN_SUCCESS", "KERN_FAILURE"}

\* controlAudioDevices: kr is what IOServiceGetMatchingServices returns
controlAudioDevices(enable, kr) == kr = "KERN_SUCCESS"

\* controlVideoDevices
controlVideoDevices(enable, kr) == kr = "KERN_SUCCESS"

isMicrophoneEnabled == microphoneEnabled

isCameraEnabled == cameraEnabled

\* the four mutators: the flag they write and the value they return

\* disableMicrophone clearing both flags
disableMicrophoneBoth(kr) ==
    [microphoneEnabled |-> FALSE, cameraEnabled |-> FALSE,
     result |-> controlAudioDevices(FALSE, kr)]

disableMicrophone(kr) ==
    [microphoneEnabled |-> FALSE, cameraEnabled |-> cameraEnabled,
     result |-> controlAudioDevices(FALSE, kr)]

enableMicrophone(kr) ==
    [microphoneEnabled |-> TRUE, cameraEnabled |-> cameraEnabled,
     result |-> controlAudioDevices(TRUE, kr)]

disableCamera(kr) ==
    [microphoneEnabled |-> microphoneEnabled, cameraEnabled |-> FALSE,
     result |-> controlVideoDevices(FALSE, kr)]

enableCamera(kr) ==
    [microphoneEnabled |-> microphoneEnabled, cameraEnabled |-> TRUE,
     result |-> controlVideoDevices(TRUE, kr)]

\* ---------------------------------------------------------- command channel

Mutators == {"disable_microphone", "enable_microphone", "disable_camera",
             "enable_camera"}

\* the "command" string of an XPC message; "" is a message without one
XpcCommands == Mutators \cup {"get_status", "reboot", ""}

Absent == "absent"

\* the reply dictionary: the keys the handler sets (Absent: key not set)
Reply(command, success, error, mic, cam) ==
    [command |-> command, success |-> success, error |-> error,
     microphone_enabled |-> mic, camera_enabled |-> cam]

\* a policy mutator command and its reply
XpcMutator(command, kr) ==
    LET r == CASE command = "disable_microphone" -> disableMicrophone(kr)
               [] command = "enable_microphone" -> enableMicrophone(kr)
               [] command = "disable_camera" -> disableCamera(kr)
               [] command = "enable_camera" -> enableCamera(kr)
    IN
    /\ phase = "running"
    /\ command \in Mutators
    /\ microphoneEnabled' = r.microphoneEnabled
    /\ cameraEnabled' = r.cameraEnabled
    /\ reply' = Reply(command, r.result, Absent, Absent, Absent)
    /\ observed' = CASE esPc # "handling" -> observed
                     [] PolicedDevice(message) = "audio" ->
                            observed \cup {r.microphoneEnabled}
                     [] PolicedDevice(message) = "video" ->
                            observed \cup {r.cameraEnabled}
                     [] OTHER -> observed
    /\ UNCHANGED <<handlerImpl, lifeVars, esPc, message, responses, delivered,
                   dbVars, memVars, scanVars>>

\* get_status answered by enabling both devices instead of reading the flags
XpcGetStatusEnabling ==
    /\ phase = "running"
    /\ microphoneEnabled' = TRUE
    /\ cameraEnabled' = TRUE
    /\ reply' = Reply("get_status", TRUE, Absent, TRUE, TRUE)
    /\ UNCHANGED <<handlerImpl, lifeVars, esVars, dbVars, memVars, scanVars>>

\* get_status
XpcGetStatus ==
    /\ phase = "running"
    /\ reply' = Reply("get_status", TRUE, Absent, isMicrophoneEnabled, isCameraEnabled)
    /\ UNCHANGED <<handlerImpl, policyVars, lifeVars, esVars, dbVars, memVars,
                   scanVars>>

\* a command the handler does not know
XpcUnknown(command) ==
    /\ phase = "running"
    /\ command \notin Mutators \cup {"get_status", ""}
    /\ reply' = Reply(command, FALSE, "Unknown command", Absent, Absent)
    /\ UNCHANGED <<handlerImpl, policyVars, lifeVars, esVars, dbVars, memVars,
                   scanVars>>

\* a dictionary without a command: logged, no reply
XpcNoCommand ==
    /\ phase = "running"
    /\ UNCHANGED vars

\* --------------------------------------------------------- monitoring threads

\* what analyzeProcess returns: it never sets the capability flags
Indeterminate == "indeterminate"

AnalyzedInfo(pid, os) ==
    [pid |-> pid, openFiles |-> os.openFiles,
     loadedLibraries |-> os.loadedLibraries,
     environmentVariables |-> os.environmentVariables,
     hasAudioAccess |-> Indeterminate, hasVideoAccess |-> Indeterminate,
     hasNetworkAccess |-> Indeterminate]

\* one iteration of the loop of scanRunningProcesses, run by
\* processMonitoringThread while monitoringEnabled, up to the store: pid is
\* the next entry of the process list sysctl(KERN_PROC_ALL) returned; a pid
\* that find() reports is skipped, any other is analyzed
ProcScanFind(pid) ==
    /\ procPc = "run"
    /\ monitoringEnabled
    /\ IF pid \in DOMAIN runningProcesses
       THEN UNCHANGED <<scanVars, newest>>
       ELSE \E os \in Introspections :
              /\ scan' = AnalyzedInfo(pid, os)
              /\ newest' = [newest EXCEPT ![pid] = AnalyzedInfo(pid, os)]
              /\ procPc' = "analyzed"
    /\ UNCHANGED <<handlerImpl, policyVars, lifeVars, esVars, dbVars,
                   runningProcesses, recentFileAccess, reply>>

\* the thread enters runningProcesses[pid] = info
ProcScanStoreBegin ==
    /\ procPc = "analyzed"
    /\ procPc' = "storing"
    /\ UNCHANGED <<handlerImpl, policyVars, lifeVars, esVars, dbVars, memVars,
                   reply, scan>>

\* the thread leaves runningProcesses[pid] = info and calls logProcessEvent
ProcScanStoreEnd ==
    /\ MapInUse
    /\ \E outcome \in RaceOutcomes(procPc = "raced") :
         runningProcesses' =
            Outcome(outcome, Store(runningProcesses, scan.pid, scan))
    /\ \E wr \in WriteResults :
         /\ logProcessEvent("proc", scan, "DISCOVERED", wr)
         /\ procPc' = IF SelfDeadlock(scan, wr) THEN "deadlocked" ELSE "run"
    /\ scan' = NoInfo
    /\ UNCHANGED <<handlerImpl, policyVars, lifeVars, esVars, recentFileAccess,
                   newest, reply>>

\* getProcessInfo(pid): the stored snapshot, or what analyzeProcess collects
\* now (os is what the introspection calls return)
getProcessInfo(pid, os) ==
    IF pid \in DOMAIN runningProcesses
    THEN runningProcesses[pid]
    ELSE AnalyzedInfo(pid, os)

\* one cycle of networkMonitoringThread: parseNetstat returns no connection,
\* so scanNetworkConnections logs nothing
NetworkCycle ==
    /\ netPc = "run"
    /\ monitoringEnabled
    /\ UNCHANGED vars

\* one cycle of fileSystemMonitoringThread: monitorFileSystemEvents is empty
FileSystemCycle ==
    /\ fsPc = "run"
    /\ monitoringEnabled
    /\ UNCHANGED vars

\* processMonitoringThread reads monitoringEnabled false at the top of its
\* loop and returns
ProcThreadExit ==
    /\ procPc = "run"
    /\ ~monitoringEnabled
    /\ procPc' = "done"
    /\ UNCHANGED <<handlerImpl, policyVars, lifeVars, esVars, dbVars, memVars,
                   reply, scan>>

\* networkMonitoringThread does
NetThreadExit ==
    /\ netPc = "run"
    /\ ~monitoringEnabled
    /\ netPc' = "done"
    /\ UNCHANGED <<handlerImpl, policyVars, phase, esClient, database,
                   monitoringEnabled, fsPc, cleanupPc, calls, esVars, dbVars, memVars,
                   reply, scanVars>>

\* fileSystemMonitoringThread does
FsThreadExit ==
    /\ fsPc = "run"
    /\ ~monitoringEnabled
    /\ fsPc' = "done"
    /\ UNCHANGED <<handlerImpl, policyVars, phase, esClient, database,
                   monitoringEnabled, netPc, cleanupPc, calls, esVars, dbVars, memVars,
                   reply, scanVars>>

\* -------------------------------------------------------------------- cleanup

\* the position of thread t's function
ThreadPc(t) ==
    CASE t = "process" -> procPc
      [] t = "network" -> netPc
      [] t = "filesystem" -> fsPc

\* the position of cleanup at its test of thread t's handle
JoinPc(t) ==
    CASE t = "process" -> "join_process"
      [] t = "network" -> "join_network"
      [] t = "filesystem" -> "join_filesystem"

\* the position of cleanup after its pthread_join of thread t
AfterJoin(t) ==
    CASE t = "process" -> "join_network"
      [] t = "network" -> "join_filesystem"
      [] t = "filesystem" -> "release"

\* cleanup, called on the initialized controller: monitoringEnabled = false
cleanupBegin ==
    /\ phase = "running"
    /\ cleanupPc = "none"
    /\ monitoringEnabled' = FALSE
    /\ cleanupPc' = "join_process"
    /\ UNCHANGED <<handlerImpl, policyVars, phase, esClient, database, netPc,
                   fsPc, calls, esVars, dbVars, memVars, reply, scanVars>>

\* ~AudioVideoController, which calls cleanup whatever the controller has
\* been through: monitoringEnabled = false
destructorBegin ==
    /\ phase \in {"constructed", "aborted", "running", "stopped"}
    /\ cleanupPc \in {"none", "returned"}
    /\ phase' = "destroying"
    /\ monitoringEnabled' = FALSE
    /\ cleanupPc' = "join_process"
    /\ UNCHANGED <<handlerImpl, policyVars, esClient, database, netPc,
                   fsPc, calls, esVars, dbVars, memVars, reply, scanVars>>

\* the pthread_join calls of cleanup, in their order, on the handle of a
\* thread that was started and not joined yet: each returns once its thread
\* has returned
cleanupJoin ==
    /\ \E t \in Threads :
          /\ cleanupPc = JoinPc(t)
          /\ ThreadPc(t) = "done"
          /\ calls[t] = 0
          /\ calls' = [calls EXCEPT ![t] = @ + 1]
          /\ cleanupPc' = AfterJoin(t)
    /\ UNCHANGED <<handlerImpl, policyVars, phase, esClient, database,
                   monitoringEnabled, netPc, fsPc, esVars, dbVars, memVars,
                   reply, scanVars>>

\* what the test and pthread_join of cleanup do with a handle that names no
\* joinable thread: "zero", the handle reads as zero and the call is
\* skipped; "ESRCH", pthread_join is called and returns an error; "fault",
\* pthread_join is called and does not return
StaleOutcomes == {"zero", "ESRCH", "fault"}

\* the same step of cleanup when the handle names no joinable thread: it
\* was never written, since no constructor initializes it and only
\* pthread_create assigns it, or its thread is joined already, since
\* cleanup leaves the handle as it is
cleanupJoinStale(outcome) ==
    /\ \E t \in Threads :
          /\ cleanupPc = JoinPc(t)
          /\ \/ ThreadPc(t) = "none"
             \/ calls[t] >= 1 /\ ThreadPc(t) # "none" /\ outcome # "zero"
          /\ calls' = [calls EXCEPT ![t] = IF outcome = "zero" THEN @ ELSE @ + 1]
          /\ cleanupPc' = IF outcome = "fault" THEN "faulted" ELSE AfterJoin(t)
    /\ UNCHANGED <<handlerImpl, policyVars, phase, esClient, database,
                   monitoringEnabled, netPc, fsPc, esVars, dbVars, memVars,
                   reply, scanVars>>

\* es_delete_client and sqlite3_close, each on a handle that is not null,
\* return; the source does not tell whether es_delete_client waits for a
\* handler that is running, and here it returns either way
cleanupRelease ==
    /\ cleanupPc = "release"
    /\ calls' = [calls EXCEPT
                   !["es_delete_client"] = IF esClient THEN @ + 1 ELSE @,
                   !["sqlite3_close"] = IF database THEN @ + 1 ELSE @]
    /\ esClient' = FALSE
    /\ database' = FALSE
    /\ cleanupPc' = "returned"
    /\ phase' = IF phase = "destroying" THEN "destroyed" ELSE "stopped"
    /\ UNCHANGED <<handlerImpl, policyVars, monitoringEnabled, netPc, fsPc,
                   esVars, dbVars, memVars, reply, scanVars>>

\* ----------------------------------------------------------- specification

Next ==
    \/ \E outcome \in InitOutcomes : initialize(outcome)
    \/ \E m \in Messages : ESDeliver(m)
    \/ EsHandleESEvent
    \/ PmHandleESEvent
    \/ \E command \in Mutators, kr \in KernResults : XpcMutator(command, kr)
    \/ XpcGetStatus
    \/ \E command \in XpcCommands : XpcUnknown(command)
    \/ XpcNoCommand
    \/ \E pid \in ScanPids : ProcScanFind(pid)
    \/ ProcScanStoreBegin
    \/ ProcScanStoreEnd
    \/ NetworkCycle
    \/ FileSystemCycle

Spec == Init /\ [][Next]_vars

\* the threads are scheduled: a handler or a scan step that can run does run
Fairness ==
    /\ WF_vars(EsHandleESEvent)
    /\ WF_vars(PmHandleESEvent)
    /\ WF_vars(ProcScanStoreBegin)
    /\ WF_vars(ProcScanStoreEnd)

FairSpec == Spec /\ Fairness

\* the class with a caller of cleanup and no command channel
NextLife ==
    \/ \E outcome \in InitOutcomes : initialize(outcome)
    \/ \E m \in Messages : ESDeliver(m)
    \/ EsHandleESEvent
    \/ PmHandleESEvent
    \/ \E pid \in ScanPids : ProcScanFind(pid)
    \/ ProcScanStoreBegin
    \/ ProcScanStoreEnd
    \/ NetworkCycle
    \/ FileSystemCycle
    \/ ProcThreadExit
    \/ NetThreadExit
    \/ FsThreadExit
    \/ cleanupBegin
    \/ cleanupJoin
    \/ cleanupRelease

\* the threads are scheduled, and a thread that can take its next step does
FairLife ==
    /\ Init
    /\ [][NextLife]_vars
    /\ Fairness
    /\ WF_vars(ProcThreadExit)
    /\ WF_vars(NetThreadExit)
    /\ WF_vars(FsThreadExit)
    /\ WF_vars(cleanupJoin)
    /\ WF_vars(cleanupRelease)

\* the class with a caller that destroys the controller, after a cleanup of
\* its own or without one, and no event source
NextTeardown ==
    \/ \E outcome \in InitOutcomes : initialize(outcome)
    \/ \E pid \in ScanPids : ProcScanFind(pid)
    \/ ProcScanStoreBegin
    \/ ProcScanStoreEnd
    \/ NetworkCycle
    \/ FileSystemCycle
    \/ ProcThreadExit
    \/ NetThreadExit
    \/ FsThreadExit
    \/ cleanupBegin
    \/ destructorBegin
    \/ cleanupJoin
    \/ \E outcome \in StaleOutcomes : cleanupJoinStale(outcome)
    \/ cleanupRelease

SpecTeardown == Init /\ [][NextTeardown]_vars

\* the class with a caller of its read accessors and no command channel
NextStore ==
    \/ \E outcome \in InitOutcomes : initialize(outcome)
    \/ \E m \in Messages : ESDeliver(m)
    \/ EsHandleESEvent
    \/ PmHandleESEvent
    \/ \E pid \in ScanPids : ProcScanFind(pid)
    \/ ProcScanStoreBegin
    \/ ProcScanStoreEnd
    \/ \E accessor \in ReadAccessors, ties \in TieOrders :
          ReadBegin(accessor, ties)
    \/ ReadEnd

SpecStore == Init /\ [][NextStore]_vars

\* the event client and a discovery scan that meets every process
NextRegistry ==
    \/ \E outcome \in InitOutcomes : initialize(outcome)
    \/ \E m \in Messages : ESDeliver(m)
    \/ EsHandleESEvent
    \/ PmHandleESEvent
    \/ \E pid \in Pids : ProcScanFind(pid)
    \/ ProcScanStoreBegin
    \/ ProcScanStoreEnd

SpecRegistry == Init /\ [][NextRegistry]_vars

\* the opens handled before InitRecent, one for each buffer entry
FilledAccess(i) ==
    OpenAccess([pid |-> i, path |-> PathPlain], TRUE, TRUE)

\* the numbers of opens handled before InitRecent
RecentFills == (RecentLimit - 3)..RecentLimit

\* the state after initialize and n opens of a plain path, by processes
\* 1 to n, each handled and logged by handleFileOpen
InitRecent ==
    /\ handlerImpl = "ProcessMonitoring"
    /\ phase = "running"
    /\ esClient = TRUE
    /\ database = TRUE
    /\ monitoringEnabled = TRUE
    /\ netPc = "run"
    /\ fsPc = "run"
    /\ cleanupPc = "none"
    /\ calls = NoCalls
    /\ microphoneEnabled = TRUE
    /\ cameraEnabled = TRUE
    /\ esPc = "idle"
    /\ responses = <<>>
    /\ delivered = 0
    /\ \E n \in RecentFills :
         /\ message = [event_type |-> "NOTIFY_OPEN", action_type |-> "NOTIFY",
                       pid |-> n, path |-> PathPlain, target |-> 0,
                       number |-> 0]
         /\ file_access = [i \in 1..n |-> FileAccessRow(FilledAccess(i))]
         /\ recentFileAccess = [i \in 1..n |-> FilledAccess(i)]
    /\ observed = {}
    /\ dbOwner = "none"
    /\ process_events = <<>>
    /\ system_calls = <<>>
    /\ loaded_libraries = <<>>
    /\ environment_vars = <<>>
    /\ network_connections = <<>>
    /\ readPc = "idle"
    /\ readResult = <<>>
    /\ runningProcesses = <<>>
    /\ newest = [pid \in Pids |-> NoInfo]
    /\ reply = NoReply
    /\ procPc = "run"
    /\ scan = NoInfo

\* the open events
OpenMessages == {m \in Messages : m.event_type \in {"AUTH_OPEN", "NOTIFY_OPEN"}}

\* open events and nothing else
NextRecent ==
    \/ \E m \in OpenMessages : ESDeliver(m)
    \/ PmHandleESEvent

SpecRecent == InitRecent /\ [][NextRecent]_vars

\* how the clock ran while the rows InitRead starts from were written: in
\* one boot, or with a restart of the machine, and so of the clock, between
\* two of them
Clocks == {"one boot", "rebooted"}

\* the timestamp of row i of a table of about limit rows: the rows come in
\* three runs of equal readings, the second run starting at row limit / 2
\* and the third at row limit; after a restart the third run has the lowest
Stamp(clock, i, limit) ==
    LET run == (2 * i) \div limit
    IN IF clock = "one boot" THEN run ELSE (run + 1) % 3

\* the connection an earlier logNetworkEvent call logged as row i
FilledConnection(clock, i) ==
    [timestamp |-> Stamp(clock, i, NetworkLimit), pid |-> i,
     protocol |-> "tcp", localAddress |-> "10.0.0.1", localPort |-> 49152,
     remoteAddress |-> "10.0.0.2", remotePort |-> 443,
     state |-> "ESTABLISHED"]

\* the numbers of rows the tables hold in InitRead
NetworkFills == {2, NetworkLimit - 1, NetworkLimit, NetworkLimit + 1}
HistoryFills == {2, HistoryLimit - 1, HistoryLimit, HistoryLimit + 1}

\* the state after initialize, nf opens of a plain path by processes 1 to
\* nf, each logged by logFileAccess, and nn logNetworkEvent calls
InitRead ==
    /\ handlerImpl = "ProcessMonitoring"
    /\ phase = "running"
    /\ esClient = TRUE
    /\ database = TRUE
    /\ monitoringEnabled = TRUE
    /\ netPc = "run"
    /\ fsPc = "run"
    /\ cleanupPc = "none"
    /\ calls = NoCalls
    /\ microphoneEnabled = TRUE
    /\ cameraEnabled = TRUE
    /\ esPc = "idle"
    /\ message = NoMessage
    /\ responses = <<>>
    /\ delivered = 0
    /\ observed = {}
    /\ dbOwner = "none"
    /\ process_events = <<>>
    /\ \E clock \in Clocks, nf \in HistoryFills, nn \in NetworkFills :
         /\ file_access =
              [i \in 1..nf |->
                 [FileAccessRow(FilledAccess(i))
                    EXCEPT !.timestamp = Stamp(clock, i, HistoryLimit)]]
         /\ network_connections =
              [i \in 1..nn |-> NetworkRow(FilledConnection(clock, i))]
    /\ system_calls = <<>>
    /\ loaded_libraries = <<>>
    /\ environment_vars = <<>>
    /\ readPc = "idle"
    /\ readResult = <<>>
    /\ runningProcesses = <<>>
    /\ recentFileAccess = <<>>
    /\ newest = [pid \in Pids |-> NoInfo]
    /\ reply = NoReply
    /\ procPc = "run"
    /\ scan = NoInfo

\* a caller of the read accessors
NextRead ==
    \/ \E accessor \in ReadAccessors, ties \in TieOrders :
          ReadBegin(accessor, ties)
    \/ ReadEnd

SpecRead == InitRead /\ [][NextRead]_vars

\* ------------------------------------------------------------------ claims

\* handleESEvent has returned from the message in `message`
Returned == esPc = "idle" /\ message # NoMessage

\* this step is handleESEvent running to its return
HandlerReturns == esPc = "handling" /\ esPc' = "idle"

\* C1: for every delivered AUTH message, of any event type and after any
\* events and policy toggles, handleESEvent has made exactly one
\* es_respond_auth_result call by the time it returns, and never holds two.
C1_ExactlyOneResponse ==
    /\ Len(responses) <= 1
    /\ (Returned /\ message.action_type = "AUTH") => Len(responses) = 1

\* C1 witness: an AUTH_UNLINK message was answered once after a toggle.
C1_Witness ==
    /\ Returned
    /\ message.event_type = "AUTH_UNLINK"
    /\ Len(responses) = 1
    /\ ~microphoneEnabled

\* C2: the response to an AUTH_OPEN whose path holds an audio marker is ALLOW
\* if microphoneEnabled is true when the decision is computed, DENY otherwise.
C2_AudioFollowsMicrophone ==
    [][(HandlerReturns /\ PolicedDevice(message) = "audio")
          => responses' = <<Decision(microphoneEnabled)>>]_vars

\* C3: the response to an AUTH_OPEN whose path holds a video marker and no
\* audio marker is ALLOW if cameraEnabled is true when the decision is
\* computed, DENY otherwise.
C3_VideoFollowsCamera ==
    [][(HandlerReturns /\ PolicedDevice(message) = "video")
          => responses' = <<Decision(cameraEnabled)>>]_vars

\* C4: an AUTH message that is no open, or an open without a path or with a
\* path holding neither an audio nor a video marker, is answered ALLOW
\* whatever the two flags are.
C4_DefaultAllow ==
    (Returned /\ message.action_type = "AUTH" /\ PolicedDevice(message) = "none")
        => responses = <<"ALLOW">>

\* C4 witness: an open of a plain path was allowed with both devices disabled.
C4_Witness ==
    /\ Returned
    /\ message.event_type = "AUTH_OPEN"
    /\ message.path = PathPlain
    /\ responses = <<"ALLOW">>
    /\ ~microphoneEnabled
    /\ ~cameraEnabled

\* C5: handling a NOTIFY message makes no es_respond_auth_result call, and
\* changes nothing but the audit store (with its mutex), the registry and
\* the recent-file-access buffer.
C5_NotifyNoResponse ==
    [][(esPc = "handling" /\ esPc' # "handling" /\ message.action_type = "NOTIFY")
          => /\ responses' = <<>>
             /\ UNCHANGED <<handlerImpl, policyVars, lifeVars, message, delivered,
                            observed, reply, scan>>
             /\ procPc' \in {procPc, "raced"}]_vars

\* C5 witness: a NOTIFY_OPEN was logged and buffered, and nothing was answered.
C5_Witness ==
    /\ Returned
    /\ message.event_type = "NOTIFY_OPEN"
    /\ Len(file_access) = 1
    /\ Len(recentFileAccess) = 1
    /\ responses = <<>>

\* the file_access row C6 asks for
BlockedAudioRow(m, row) ==
    /\ row.pid = m.pid
    /\ row.file_path = m.path
    /\ row.was_blocked
    /\ row.reason = "Microphone disabled by system extension"

\* C6: an AUTH_OPEN of a path holding an audio marker, handled while
\* microphoneEnabled is false, is answered DENY and leaves a file_access row
\* for its pid and path with was_blocked set and the microphone reason.
C6_DenyAndRecord ==
    [][(HandlerReturns /\ PolicedDevice(message) = "audio" /\ ~microphoneEnabled)
          => /\ responses' = <<"DENY">>
             /\ \E i \in DOMAIN file_access' :
                    BlockedAudioRow(message, file_access'[i])]_vars

\* the flag the last XPC reply says was written holds the value written
LastWriteWins ==
    /\ reply.command = "enable_microphone" => microphoneEnabled
    /\ reply.command = "disable_microphone" => ~microphoneEnabled
    /\ reply.command = "enable_camera" => cameraEnabled
    /\ reply.command = "disable_camera" => ~cameraEnabled

\* C7: when toggles race a decision, the decision is the one for a value the
\* flag held at some instant between delivery and response, and after the
\* toggles the flag holds the value the last one wrote.
C7_DecisionAtOneInstant ==
    /\ (Returned /\ PolicedDevice(message) # "none")
          => \E v \in observed : responses = <<Decision(v)>>
    /\ LastWriteWins

\* the value a mutator command asks for
Requested(command) == command \in {"enable_microphone", "enable_camera"}

\* of the flags mic and cam, the one a mutator command writes
FlagOf(command, mic, cam) ==
    IF command \in {"enable_microphone", "disable_microphone"} THEN mic ELSE cam

\* C8: a policy mutator called when its flag already has the requested value
\* (enableMicrophone twice in a row) leaves the flag at that value and
\* reports success.
C8_IdempotentSuccess ==
    [][(reply' # reply /\ reply'.command \in Mutators
            /\ FlagOf(reply'.command, microphoneEnabled, cameraEnabled)
                  = Requested(reply'.command))
          => /\ FlagOf(reply'.command, microphoneEnabled', cameraEnabled')
                  = Requested(reply'.command)
             /\ reply'.success = TRUE]_vars

\* the device a mutator command is about
DeviceOf(command) ==
    IF command \in {"enable_microphone", "disable_microphone"}
    THEN "audio"
    ELSE "video"

\* C9: after a mutator whose hardware step failed, the flag holds the
\* requested value, and an authorization decision made after it is the one
\* for that value.
C9_FlagAuthoritative ==
    /\ []((reply.command \in Mutators /\ reply.success = FALSE) => LastWriteWins)
    /\ [][(HandlerReturns /\ reply.command \in Mutators /\ reply.success = FALSE
              /\ PolicedDevice(message) = DeviceOf(reply.command))
            => responses' = <<Decision(Requested(reply.command))>>]_vars

\* C10: the two flags change only in a step of one of the four mutators:
\* no event dispatch, scan cycle or get_status changes them.
C10_OnlyMutatorsWrite ==
    [][(microphoneEnabled' # microphoneEnabled \/ cameraEnabled' # cameraEnabled)
          => \E command \in Mutators, kr \in KernResults : XpcMutator(command, kr)]_vars

\* C10 witness: an event was handled, a scan stored a process and get_status
\* was answered, and both flags are as constructed.
C10_Witness ==
    /\ Returned
    /\ DOMAIN runningProcesses # {}
    /\ \E i \in DOMAIN process_events : process_events[i].event_type = "DISCOVERED"
    /\ reply.command = "get_status"
    /\ reply.microphone_enabled = TRUE
    /\ reply.camera_enabled = TRUE
    /\ microphoneEnabled
    /\ cameraEnabled

\* C11: after any sequence of handled events, recentFileAccess holds at most
\* 10,000 entries.
C11_BufferBounded == Len(recentFileAccess) <= RecentLimit

\* C11 witness: an open was appended and the buffer holds exactly 10,000.
C11_Witness ==
    /\ Returned
    /\ delivered > 0
    /\ Len(recentFileAccess) = RecentLimit
    /\ recentFileAccess[RecentLimit].pid = message.pid
    /\ recentFileAccess[RecentLimit].filePath = message.path

\* this step is handleFileOpen appending to recentFileAccess
Appends ==
    /\ HandlerReturns
    /\ handlerImpl = "ProcessMonitoring"
    /\ message.event_type \in {"AUTH_OPEN", "NOTIFY_OPEN"}
    /\ message.path # NoPath

\* C12: an append that takes recentFileAccess over 10,000 entries removes
\* exactly the 1,000 oldest in the same step and keeps the others, the new
\* one included, in arrival order; any other append removes nothing.
C12_EvictOldestThousand ==
    [][Appends =>
         LET appended == Append(recentFileAccess,
                                OpenAccess(message, microphoneEnabled,
                                           cameraEnabled))
         IN IF Len(appended) > RecentLimit
            THEN /\ Len(recentFileAccess') = Len(appended) - RecentEvict
                 /\ \A i \in 1..Len(recentFileAccess') :
                        recentFileAccess'[i] = appended[i + RecentEvict]
            ELSE recentFileAccess' = appended]_vars

\* C12 witness: the 10,001st open was appended, the opens of processes 1 to
\* 1,000 are gone, and that of process 1,001 is the oldest left.
C12_Witness ==
    /\ Returned
    /\ delivered > 0
    /\ Len(recentFileAccess) = RecentLimit + 1 - RecentEvict
    /\ recentFileAccess[1] = FilledAccess(RecentEvict + 1)
    /\ recentFileAccess[Len(recentFileAccess)] =
          OpenAccess(message, microphoneEnabled, cameraEnabled)

\* this step is handleProcessExec run to its return, or to where it blocks
ExecHandled ==
    /\ esPc = "handling"
    /\ esPc' # "handling"
    /\ handlerImpl = "ProcessMonitoring"
    /\ message.event_type = "NOTIFY_EXEC"

\* C13: runningProcesses holds one snapshot for a pid, the one of that pid,
\* and handleProcessExec for a pid that has one replaces it entirely: what
\* is stored afterwards is the snapshot the handler built.
C13_OnePerPidReplaced ==
    /\ [](\A pid \in DOMAIN runningProcesses : runningProcesses[pid].pid = pid)
    /\ [][(ExecHandled /\ message.pid \in DOMAIN runningProcesses)
            => /\ message.pid \in DOMAIN runningProcesses'
               /\ \E os \in Introspections :
                     runningProcesses'[message.pid] = ExecInfo(message.pid, os)]_vars

\* this step is the handling of a process-exit event, to its return or to
\* where it blocks
ExitHandled ==
    /\ esPc = "handling"
    /\ esPc' # "handling"
    /\ message.event_type = "NOTIFY_EXIT"

\* C14: an exit event for a pid in runningProcesses removes the pid, after
\* which getProcessInfo(pid) returns a fresh analyzeProcess snapshot; for a
\* pid in runningProcesses getProcessInfo returns the stored snapshot.
C14_ExitRemoves ==
    /\ [](\A pid \in DOMAIN runningProcesses, os \in Introspections :
            getProcessInfo(pid, os) = runningProcesses[pid])
    /\ [][(ExitHandled /\ message.pid \in DOMAIN runningProcesses)
            => /\ message.pid \notin DOMAIN runningProcesses'
               /\ \A os \in Introspections :
                     getProcessInfo(message.pid, os)'
                        = AnalyzedInfo(message.pid, os)]_vars

\* this step is the scan leaving runningProcesses[pid] = info
ScanStores == MapInUse /\ ~MapInUse'

\* C15: whatever the event handler does meanwhile, the store of a scan
\* leaves every entry runningProcesses holds at that moment as it is: it
\* adds an entry for an absent pid and nothing else.
C15_ScanOnlyAdds ==
    [][ScanStores
          => \A pid \in DOMAIN runningProcesses :
                /\ pid \in DOMAIN runningProcesses'
                /\ runningProcesses'[pid] = runningProcesses[pid]]_vars

\* C16: the snapshot runningProcesses holds for a pid is the one collected
\* last for that pid, by handleProcessExec or by the scan.
C16_NewestStored ==
    \A pid \in DOMAIN runningProcesses : runningProcesses[pid] = newest[pid]

\* this step is the event handler using runningProcesses
HandlerUsesMap ==
    /\ esPc = "handling"
    /\ esPc' # "handling"
    /\ handlerImpl = "ProcessMonitoring"
    /\ message.event_type \in RegistryEvents

\* C17: no thread uses runningProcesses while another thread is inside a
\* read or a write of it.
C17_RegistryExclusive == [][HandlerUsesMap => ~MapInUse]_vars

\* the tables of the audit store
tables ==
    <<process_events, file_access, system_calls, loaded_libraries,
      environment_vars>>

\* C18: one thread at a time runs statements on the audit store: a caller is
\* inside a read accessor exactly while it holds databaseMutex, and a write
\* or a read starts only in a thread that found the mutex free and took it,
\* so no statement runs while another caller holds the mutex.
C18_StoreSerialized ==
    /\ [](readPc # "idle" <=> dbOwner = "reader")
    /\ [][(tables' # tables \/ (readPc = "idle" /\ readPc' # "idle"))
            => dbOwner = "none"]_vars

\* C18 witness: a caller is inside getFileAccessHistory while the event
\* handler has a file open to log and the scan a process to log.
C18_Witness ==
    /\ readPc = "getFileAccessHistory"
    /\ dbOwner = "reader"
    /\ handlerImpl = "ProcessMonitoring"
    /\ esPc = "handling"
    /\ message.event_type = "AUTH_OPEN"
    /\ message.path = PathAudio
    /\ procPc = "storing"

\* C19: a logProcessEvent call for a snapshot with N open files, M loaded
\* libraries and K environment variables returns in the end with
\* databaseMutex released, and the call that wrote its process_events row
\* has also written N file_access rows, M loaded_libraries rows and K
\* environment_vars rows (here: the call the discovery scan makes).
C19_LogProcessEventReturns ==
    /\ MapInUse ~> (procPc = "run" /\ dbOwner # "proc")
    /\ [][ScanStores
            => /\ procPc' = "run"
               /\ dbOwner' = "none"
               /\ Len(process_events') = Len(process_events) + 1
                    => /\ Len(file_access')
                            = Len(file_access) + Len(scan.openFiles)
                       /\ Len(loaded_libraries')
                            = Len(loaded_libraries) + Len(scan.loadedLibraries)
                       /\ Len(environment_vars')
                            = Len(environment_vars)
                                 + Len(scan.environmentVariables)]_vars

\* what handleESEvent can have answered when it returns
ResponseSets == {<<>>, <<"ALLOW">>, <<"DENY">>}

\* this step is handleESEvent of ProcessMonitoring.cpp returning from an
\* AUTH message whose handler logs a file access
AuthLogged ==
    /\ HandlerReturns
    /\ handlerImpl = "ProcessMonitoring"
    /\ message.event_type \in {"AUTH_OPEN", "AUTH_UNLINK"}
    /\ message.path # NoPath

\* C20: when the audit-store write of an AUTH event fails, the event still
\* gets its one response, and it is the response the same event gets from
\* the same state when the write succeeds.
C20_AnswerDespiteWriteFailure ==
    [][(AuthLogged /\ file_access' = file_access)
          => \E r \in ResponseSets :
                /\ Len(r) = 1
                /\ responses' = r
                /\ \A q \in ResponseSets :
                      (ENABLED (/\ PmHandleESEvent
                                /\ file_access' # file_access
                                /\ responses' = q))
                         <=> q = r]_vars

\* C20 witness: the open of /dev/audio1 was answered and left no row.
C20_Witness ==
    /\ Returned
    /\ handlerImpl = "ProcessMonitoring"
    /\ message.event_type = "AUTH_OPEN"
    /\ message.path = PathAudio
    /\ ~microphoneEnabled
    /\ file_access = <<>>
    /\ Len(recentFileAccess) = 1
    /\ Len(responses) = 1

\* C21: once cleanup has set monitoringEnabled to false, no monitoring
\* thread starts another scan, each of the three threads returns, the
\* pthread_join calls complete and cleanup returns.
C21_CleanupReturns ==
    /\ [][~monitoringEnabled => ~(procPc = "run" /\ procPc' = "analyzed")]_vars
    /\ (cleanupPc = "join_process")
          ~> (procPc = "done" /\ netPc = "done" /\ fsPc = "done")
    /\ (cleanupPc = "join_process") ~> (cleanupPc = "returned")

\* C22: when the database cannot be opened or the event client cannot be
\* created or subscribed, startup aborts: no monitoring thread is started
\* and no event is ever delivered; once the program runs, no failure (of a
\* write, of an introspection call, of a device step) stops it.
C22_FatalInitOnly ==
    /\ [](phase = "aborted"
            => /\ procPc = "none" /\ netPc = "none" /\ fsPc = "none"
               /\ ~monitoringEnabled
               /\ delivered = 0 /\ esPc = "idle" /\ message = NoMessage)
    /\ []((phase # "constructed" /\ (~database \/ ~esClient))
            => phase = "aborted")
    /\ [][phase = "running" => phase' = "running"]_vars

\* C22 witness: the database was opened, the event client was not set up,
\* and startup was aborted.
C22_Witness == phase = "aborted" /\ database /\ ~esClient

C24_RoundTrip ==
    readPc = "getFileAccessHistory"
      => /\ \A k \in DOMAIN process_events :
               \E j \in DOMAIN readResult :
                  readResult[j].pid = process_events[k].pid
         /\ \A k \in DOMAIN loaded_libraries :
               \E j \in DOMAIN readResult :
                  /\ readResult[j].pid = loaded_libraries[k].pid
                  /\ readResult[j].filePath = loaded_libraries[k].library_path
         /\ \A k \in DOMAIN environment_vars :
               \E j \in DOMAIN readResult :
                  /\ readResult[j].pid = environment_vars[k].pid
                  /\ readResult[j].reason = environment_vars[k].var_value

\* C25: a row enters file_access only in the step in which the handler of
\* one delivered message returns; it is one row, it bears that message's pid
\* and the clock reading of that message, and no earlier row bears that
\* reading, so no message has two rows and no row is without its message.
\* No row enters network_connections: the network scan observes nothing.
C25_OneRecordPerEvent ==
    [][/\ network_connections' = network_connections
       /\ file_access' # file_access
            => /\ esPc = "handling" /\ esPc' = "idle"
               /\ \E row \in {file_access'[Len(file_access')]} :
                     /\ file_access' = Append(file_access, row)
                     /\ row.pid = message.pid
                     /\ row.file_path = message.path
                     /\ row.timestamp = delivered
               /\ \A i \in DOMAIN file_access :
                     file_access[i].timestamp < delivered]_vars

\* C25 witness: the handler of a write event has returned and file_access
\* holds the one row of that event.
C25_Witness ==
    /\ esPc = "idle"
    /\ message.event_type = "NOTIFY_WRITE"
    /\ Len(file_access) = 1
    /\ file_access[1].access_type = "WRITE"
    /\ file_access[1].pid = message.pid

\* C26: the reply to a command carries a boolean success; when success is
\* false it carries an error string as well, and the reply to get_status
\* carries both enablement flags.
C26_ReplyShape ==
    reply # NoReply
      => /\ reply.success \in BOOLEAN
         /\ ~reply.success => reply.error # Absent
         /\ reply.command = "get_status"
              => /\ reply.microphone_enabled \in BOOLEAN
                 /\ reply.camera_enabled \in BOOLEAN

\* the flag is "true" if one of the library paths contains one of the
\* fragments, and "false" if none does
FlagIffFragment(flag, libs, frags) ==
    LET found == \E i \in 1..Len(libs) : \E f \in frags : Contains(libs[i], f)
    IN /\ flag = "true" <=> found
       /\ ~found => flag = "false"

\* C27: when handleProcessExec has handled an exec event, runningProcesses
\* holds a snapshot for the event's pid whose hasAudioAccess is true exactly
\* if a loaded library path contains AVFoundation, CoreAudio or AudioUnit,
\* and false otherwise; likewise hasVideoAccess for AVCapture and
\* CoreMediaIO and hasNetworkAccess for Network and CFNetwork.
C27_CapabilityFlags ==
    [][ExecHandled
         => /\ message.pid \in DOMAIN runningProcesses'
            /\ LET stored == runningProcesses'[message.pid]
               IN /\ FlagIffFragment(stored.hasAudioAccess,
                                     stored.loadedLibraries,
                                     {<<"AVFoundation">>, <<"CoreAudio">>,
                                      <<"AudioUnit">>})
                  /\ FlagIffFragment(stored.hasVideoAccess,
                                     stored.loadedLibraries,
                                     {<<"AVCapture">>, <<"CoreMediaIO">>})
                  /\ FlagIffFragment(stored.hasNetworkAccess,
                                     stored.loadedLibraries,
                                     {<<"Network">>, <<"CFNetwork">>})]_vars

\* one of the introspection calls made for this snapshot returned nothing
CollectorFailed(info) ==
    \/ info.openFiles = <<>>
    \/ info.loadedLibraries = <<>>
    \/ info.environmentVariables = <<>>

\* C28: when an introspection call fails while handleProcessExec handles an
\* exec event, the handler stores its snapshot, empty fields included, in
\* runningProcesses, inserts the EXEC row (unless the INSERT itself fails)
\* and returns.
C28_PartialSnapshotStored ==
    [][(ExecHandled /\ CollectorFailed(newest'[message.pid]))
         => /\ esPc' = "idle"
            /\ message.pid \in DOMAIN runningProcesses'
            /\ runningProcesses'[message.pid] = newest'[message.pid]
            /\ process_events' \in
                  {process_events,
                   Append(process_events,
                          ProcessEventRow(newest'[message.pid], "EXEC"))}]_vars

\* the file events and the kind of record each is to produce
FileEvents ==
    {"AUTH_OPEN", "NOTIFY_OPEN", "NOTIFY_WRITE", "AUTH_UNLINK", "NOTIFY_UNLINK"}

KindOf(event_type) ==
    CASE event_type \in {"AUTH_OPEN", "NOTIFY_OPEN"} -> "OPEN"
      [] event_type = "NOTIFY_WRITE" -> "WRITE"
      [] event_type \in {"AUTH_UNLINK", "NOTIFY_UNLINK"} -> "DELETE"

\* C29: when handleESEvent of ProcessMonitoring.cpp has handled an open,
\* write or unlink event that carries a path, the last entry of
\* recentFileAccess is a record of the event's pid, path and kind, put there
\* in this step, and file_access has gained the row of that record (unless
\* the INSERT itself failed).
C29_PersistedAndBuffered ==
    [][(/\ esPc = "handling" /\ esPc' = "idle"
        /\ handlerImpl = "ProcessMonitoring"
        /\ message.event_type \in FileEvents
        /\ message.path # NoPath)
         => /\ recentFileAccess' # recentFileAccess
            /\ LET access == recentFileAccess'[Len(recentFileAccess')]
               IN /\ access.pid = message.pid
                  /\ access.filePath = message.path
                  /\ access.accessType = KindOf(message.event_type)
                  /\ file_access' \in
                        {file_access,
                         Append(file_access, FileAccessRow(access))}]_vars

\* C30, for process-exit events: when handleESEvent of ProcessMonitoring.cpp
\* has handled an exit event, process_events has gained the EXIT row of the
\* event's pid, whether runningProcesses held that pid or not.
C30_ExitAlwaysRecorded ==
    [][(ExitHandled /\ handlerImpl = "ProcessMonitoring")
         => process_events' =
               Append(process_events,
                      [pid |-> message.pid, event_type |-> "EXIT"])]_vars

\* C31: the system_calls row written while handleESEvent of
\* ProcessMonitoring.cpp handles a fork event bears the parent's pid in its
\* pid column and the child's pid in its arguments.
C31_ForkLinkage ==
    [][(/\ esPc = "handling" /\ esPc' = "idle"
        /\ handlerImpl = "ProcessMonitoring"
        /\ message.event_type = "NOTIFY_FORK"
        /\ system_calls' # system_calls)
         => LET row == system_calls'[Len(system_calls')]
            IN /\ row.pid = message.pid
               /\ \E k \in DOMAIN row.arguments :
                     ToString(row.arguments[k]) = ToString(message.target)]_vars

\* the three capability flags of a snapshot follow its loaded libraries
FlagsFollowLibraries(info) ==
    /\ FlagIffFragment(info.hasAudioAccess, info.loadedLibraries,
                       {<<"AVFoundation">>, <<"CoreAudio">>, <<"AudioUnit">>})
    /\ FlagIffFragment(info.hasVideoAccess, info.loadedLibraries,
                       {<<"AVCapture">>, <<"CoreMediaIO">>})
    /\ FlagIffFragment(info.hasNetworkAccess, info.loadedLibraries,
                       {<<"Network">>, <<"CFNetwork">>})

\* C32: the snapshot the discovery scan has collected and is about to
\* store, and the snapshot getProcessInfo returns for a pid runningProcesses
\* does not hold, have capability flags that follow their loaded libraries.
C32_CollectorFlags ==
    /\ scan # NoInfo => FlagsFollowLibraries(scan)
    /\ phase = "running"
         => \A pid \in Pids \ DOMAIN runningProcesses, os \in Introspections :
               FlagsFollowLibraries(getProcessInfo(pid, os))

\* C33: when the handler of an AUTH_OPEN event has written the event's row
\* to file_access and returned, the row's was_blocked is true exactly if the
\* response made for the event is DENY.
C33_BlockedIffDenied ==
    [][(/\ esPc = "handling" /\ esPc' = "idle"
        /\ message.event_type = "AUTH_OPEN"
        /\ file_access' # file_access)
         => (file_access'[Len(file_access')].was_blocked
               <=> responses' = <<"DENY">>)]_vars

\* a thread is inside an audit-store operation: a caller inside a read
\* accessor, or a thread inside the logProcessEvent call it never leaves
OperationInProgress ==
    \/ readPc # "idle"
    \/ esPc = "deadlocked"
    \/ procPc = "deadlocked"

\* C34: databaseMutex is held only by a thread that is inside an audit-store
\* operation; when no operation is in progress the mutex is free, also after
\* an operation whose statement was not prepared.
C34_LockFreeWhenIdle ==
    /\ ~OperationInProgress => dbOwner = "none"
    /\ dbOwner = "reader" => readPc # "idle"
    /\ dbOwner = "es" => esPc = "deadlocked"
    /\ dbOwner = "proc" => procPc = "deadlocked"

\* C34 witness: handleProcessExec has returned from logProcessEvent for a
\* snapshot with an open file, which it does only when sqlite3_prepare_v2
\* failed, and the mutex is free.
C34_Witness ==
    /\ esPc = "idle"
    /\ handlerImpl = "ProcessMonitoring"
    /\ message.event_type = "NOTIFY_EXEC"
    /\ newest[message.pid].openFiles # <<>>
    /\ process_events = <<>>
    /\ procPc = "run"
    /\ readPc = "idle"
    /\ dbOwner = "none"

\* C36: a microphone mutator leaves cameraEnabled as it was and a camera
\* mutator leaves microphoneEnabled as it was; both flags are true in the
\* constructed controller, and a flag goes from true to false only in a
\* step of its own disable command.
C36_OtherFlagUntouched ==
    /\ [](phase = "constructed" => microphoneEnabled /\ cameraEnabled)
    /\ [][(reply' # reply /\ reply'.command \in Mutators)
            => IF DeviceOf(reply'.command) = "audio"
               THEN cameraEnabled' = cameraEnabled
               ELSE microphoneEnabled' = microphoneEnabled]_vars
    /\ [][(microphoneEnabled /\ ~microphoneEnabled')
            => reply'.command = "disable_microphone"]_vars
    /\ [][(cameraEnabled /\ ~cameraEnabled')
            => reply'.command = "disable_camera"]_vars

\* C36 witness: disableMicrophone was the last command, the microphone flag
\* is false and the camera flag is still true.
C36_Witness ==
    /\ reply.command = "disable_microphone"
    /\ ~microphoneEnabled
    /\ cameraEnabled

\* the path of the message holds an audio marker and a video marker
BothMarkers(m) ==
    /\ m.path # NoPath
    /\ ContainsAny(m.path, EsAudioMarkers)
    /\ ContainsAny(m.path, EsVideoMarkers)

\* C37: the response to an AUTH_OPEN whose path holds both an audio and a
\* video marker is the decision for microphoneEnabled, whatever
\* cameraEnabled is.
C37_AudioPrecedence ==
    [][(HandlerReturns /\ message.event_type = "AUTH_OPEN"
           /\ BothMarkers(message))
          => responses' = <<Decision(microphoneEnabled)>>]_vars

\* C38: cleanup calls pthread_join only on the handle of a scanner thread
\* that was started, and at most once on each, also when initialize failed
\* before it started the scanners and when cleanup runs a second time from
\* the destructor; then cleanup returns, and es_delete_client and
\* sqlite3_close have each been called at most once
C38_JoinStartedOnce ==
    /\ \A t \in Threads :
          /\ calls[t] <= 1
          /\ calls[t] = 1 => ThreadPc(t) # "none"
    /\ cleanupPc # "faulted"
    /\ calls["es_delete_client"] <= 1
    /\ calls["sqlite3_close"] <= 1

\* the part of C38 about the event client and the store handle
C38_ReleasedOnce ==
    /\ calls["es_delete_client"] <= 1
    /\ calls["sqlite3_close"] <= 1

=============================================================================
